---- MODULE Spec2Model ----
(***************************************************************************)
(* Model of parseAttributedBody (packages/imessage-sdk/src/utils.ts), the  *)
(* decoder that recovers a message's plain text from the attributedBody    *)
(* blob.  Text is a sequence of UTF-16 code units and a buffer a sequence  *)
(* of bytes, both written as numbers; the string operations the function   *)
(* calls (toString("utf8"), includes, split, substring, trim, match) are   *)
(* operators computed the way the JavaScript runtime computes them.        *)
(***************************************************************************)
EXTENDS Integers, Sequences, FiniteSets, TLC

\* One invocation of parseAttributedBody: its argument, its position, its local
\* attributedBody, whether toString was called, how it completed, its value.
VARIABLES buffer, pc, attributedBody, decoded, outcome, result

\* A fetched row on its way through enrichMessage and formatMessage: the row,
\* the enriched message, the text formatMessage renders, the number of
\* decodings of the row's blob so far, and the position in the pipeline.
VARIABLES row, message, rendered, decodes, stage
VARIABLES calls, locals, heap
VARIABLES date, appleTime, roundTrip, dateStage
VARIABLES call, parts, items, listStage

\* One call of phoneNumbersMatch: its arguments, its value, its position.
VARIABLES phone1, phone2, matched, phoneStage

\* One call of ContactsClient.sendMessage and the executeOSAScript it awaits:
\* the files of the temporary directory, the activation of executeOSAScript,
\* the activation of sendMessage, and what osascript did.
VARIABLES tmpFiles, osa, sending, ran

\* One call of a message tool of the API server: the tool and its arguments,
\* the handle looked up, the text returned, the position.
VARIABLES request, handleId, response, toolStage

decoderVars == <<buffer, pc, attributedBody, decoded, outcome, result>>

pipelineVars == <<row, message, rendered, decodes, stage>>
callVars == <<calls, locals, heap>>
dateVars == <<date, appleTime, roundTrip, dateStage>>
listVars == <<call, parts, items, listStage>>
phoneVars == <<phone1, phone2, matched, phoneStage>>
scriptVars == <<tmpFiles, osa, sending, ran>>
toolVars == <<request, handleId, response, toolStage>>
appVars == <<phoneVars, scriptVars, toolVars>>

\* What a step of parseAttributedBody leaves alone.
notDecoderVars == <<pipelineVars, callVars, dateVars, listVars, appVars>>
\* What enrichMessage and formatMessage leave alone.
notPipelineVars == <<decoderVars, callVars, dateVars, listVars, appVars>>
\* What the activations of parseAttributedBody leave alone.
notCallVars == <<decoderVars, pipelineVars, dateVars, listVars, appVars>>
\* What the date conversions leave alone.
notDateVars == <<decoderVars, pipelineVars, callVars, listVars, appVars>>
\* What parseDelimitedResult leaves alone.
notListVars == <<decoderVars, pipelineVars, callVars, dateVars, appVars>>

\* What phoneNumbersMatch, sendMessage and the message tools leave alone.
coreVars == <<decoderVars, pipelineVars, callVars, dateVars, listVars>>
notPhoneVars == <<coreVars, scriptVars, toolVars>>
notScriptVars == <<coreVars, phoneVars, toolVars>>
notToolVars == <<coreVars, phoneVars, scriptVars>>

vars == <<coreVars, appVars>>

(***************************************************************************)
(* Bound of the model: the number of fragments an input buffer is made of. *)
(***************************************************************************)
MaxPieces == 4

(***************************************************************************)
(* Values.  A nullable value is a record with a tag, so that null, a       *)
(* string and a byte buffer can be compared with one another.              *)
(***************************************************************************)
Null == [tag |-> "null", val |-> <<>>]

Str(s) == [tag |-> "string", val |-> s]

Bytes(b) == [tag |-> "buffer", val |-> b]

\* A buffer longer than buffer.constants.MAX_STRING_LENGTH: its content is not
\* materialised, toString("utf8") throws ERR_STRING_TOO_LONG on it.
Huge == [tag |-> "hugebuffer", val |-> <<>>]

NUL == 0

ReplacementChar == 65533

\* "NSNumber", "NSString", "NSDictionary" (ASCII, one byte and one unit each).
NSNumber == <<78, 83, 78, 117, 109, 98, 101, 114>>

NSString == <<78, 83, 83, 116, 114, 105, 110, 103>>

NSDictionary == <<78, 83, 68, 105, 99, 116, 105, 111, 110, 97, 114, 121>>

(***************************************************************************)
(* buffer.toString("utf8"): UTF-8 to UTF-16 code units; every maximal      *)
(* invalid subpart becomes one U+FFFD, a 4-byte sequence a surrogate pair. *)
(***************************************************************************)
IsCont(b) == b >= 128 /\ b <= 191

\* The range the second byte of a sequence led by b must lie in.
SecondLo(b) == IF b = 224 THEN 160 ELSE IF b = 240 THEN 144 ELSE 128

SecondHi(b) == IF b = 237 THEN 159 ELSE IF b = 244 THEN 143 ELSE 191

\* Number of bytes of the sequence a lead byte announces (0: not a lead byte).
SeqLen(b) ==
    IF b < 128 THEN 1
    ELSE IF b >= 194 /\ b <= 223 THEN 2
    ELSE IF b >= 224 /\ b <= 239 THEN 3
    ELSE IF b >= 240 /\ b <= 244 THEN 4
    ELSE 0

\* How many bytes from position i on form a valid prefix of one sequence.
ValidPrefix(b, i) ==
    LET n == SeqLen(b[i])
        ok2 == i + 1 <= Len(b) /\ b[i + 1] >= SecondLo(b[i]) /\ b[i + 1] <= SecondHi(b[i])
        ok3 == ok2 /\ i + 2 <= Len(b) /\ IsCont(b[i + 2])
        ok4 == ok3 /\ i + 3 <= Len(b) /\ IsCont(b[i + 3])
    IN  IF n <= 1 THEN n
        ELSE IF ~ok2 THEN 1
        ELSE IF n = 2 THEN 2
        ELSE IF ~ok3 THEN 2
        ELSE IF n = 3 THEN 3
        ELSE IF ~ok4 THEN 3
        ELSE 4

CodePoint(b, i, n) ==
    IF n = 1 THEN b[i]
    ELSE IF n = 2 THEN (b[i] - 192) * 64 + (b[i + 1] - 128)
    ELSE IF n = 3 THEN (b[i] - 224) * 4096 + (b[i + 1] - 128) * 64 + (b[i + 2] - 128)
    ELSE (b[i] - 240) * 262144 + (b[i + 1] - 128) * 4096
         + (b[i + 2] - 128) * 64 + (b[i + 3] - 128)

Units(cp) ==
    IF cp < 65536 THEN <<cp>>
    ELSE <<55296 + ((cp - 65536) \div 1024), 56320 + ((cp - 65536) % 1024)>>

RECURSIVE Utf8From(_, _)
Utf8From(b, i) ==
    IF i > Len(b) THEN <<>>
    ELSE LET n == SeqLen(b[i])
             v == ValidPrefix(b, i)
         IN  IF n # 0 /\ v = n
             THEN Units(CodePoint(b, i, n)) \o Utf8From(b, i + n)
             ELSE <<ReplacementChar>> \o Utf8From(b, i + (IF v = 0 THEN 1 ELSE v))

Utf8Decode(b) == Utf8From(b, 1)

(***************************************************************************)
(* String.prototype operations on sequences of code units.                 *)
(***************************************************************************)
OccursAt(s, m, i) == i >= 1 /\ i + Len(m) - 1 <= Len(s) /\ SubSeq(s, i, i + Len(m) - 1) = m

\* Position (from 1) of the first occurrence of m in s at or after from; 0 if none.
RECURSIVE IndexFrom(_, _, _)
IndexFrom(s, m, from) ==
    IF from + Len(m) - 1 > Len(s) THEN 0
    ELSE IF OccursAt(s, m, from) THEN from
    ELSE IndexFrom(s, m, from + 1)

IndexOf(s, m) == IndexFrom(s, m, 1)

Includes(s, m) == IndexOf(s, m) # 0

\* s.split(m) for a non-empty separator: the pieces between the occurrences.
RECURSIVE Split(_, _)
Split(s, m) ==
    LET i == IndexOf(s, m)
    IN  IF i = 0 THEN <<s>>
        ELSE <<SubSeq(s, 1, i - 1)>> \o Split(SubSeq(s, i + Len(m), Len(s)), m)

Clamp(n, len) == IF n < 0 THEN 0 ELSE IF n > len THEN len ELSE n

\* s.substring(start, end), positions from 0, end excluded.
Substring(s, start, end) ==
    LET a == Clamp(start, Len(s))
        b == Clamp(end, Len(s))
        lo == IF a < b THEN a ELSE b
        hi == IF a < b THEN b ELSE a
    IN  SubSeq(s, lo + 1, hi)

\* WhiteSpace and LineTerminator code units, the ones trim() removes.
IsWhitespace(c) ==
    \/ c \in {9, 10, 11, 12, 13, 32, 160, 5760, 8232, 8233, 8239, 8287, 12288, 65279}
    \/ (c >= 8192 /\ c <= 8202)

RECURSIVE TrimStart(_)
TrimStart(s) ==
    IF s # <<>> /\ IsWhitespace(Head(s)) THEN TrimStart(Tail(s)) ELSE s

RECURSIVE TrimEnd(_)
TrimEnd(s) ==
    IF s # <<>> /\ IsWhitespace(s[Len(s)]) THEN TrimEnd(SubSeq(s, 1, Len(s) - 1)) ELSE s

\* Mutant: trimStart() in the place of trim().
TrimLeadingOnly(s) == TrimStart(s)

Trim(s) == TrimEnd(TrimStart(s))

(***************************************************************************)
(* attributedBody.match(/NSString[^\x00]*?\x00([^\x00]+)/), as the         *)
(* backtracking matcher runs it: start positions from left to right; at    *)
(* each, the literal, the lazy run (shortest first), one NUL, and a greedy *)
(* capture of one or more units other than NUL.                            *)
(***************************************************************************)
\* Last position of the longest run of units other than NUL that starts at j.
RECURSIVE RunEnd(_, _)
RunEnd(s, j) ==
    IF j + 1 <= Len(s) /\ s[j + 1] # NUL THEN RunEnd(s, j + 1) ELSE j

\* \x00([^\x00]+) at position j: the capture, or Null.
NulThenCapture(s, j) ==
    IF j + 1 <= Len(s) /\ s[j] = NUL /\ s[j + 1] # NUL
    THEN Str(SubSeq(s, j + 1, RunEnd(s, j + 1)))
    ELSE Null

\* [^\x00]*? having consumed up to j - 1: try the rest, else take one more unit.
RECURSIVE LazyRun(_, _)
LazyRun(s, j) ==
    IF NulThenCapture(s, j) # Null THEN NulThenCapture(s, j)
    ELSE IF j <= Len(s) /\ s[j] # NUL THEN LazyRun(s, j + 1)
    ELSE Null

\* Mutant: the pattern without its lazy run, /NSString\x00([^\x00]+)/.
PatternAtNoRun(s, i) ==
    IF OccursAt(s, NSString, i) THEN NulThenCapture(s, i + Len(NSString)) ELSE Null

\* Mutant: the pattern without its literal, /[^\x00]*?\x00([^\x00]+)/.
PatternAtNoLiteral(s, i) == LazyRun(s, i)

\* The whole pattern tried at start position i.
PatternAt(s, i) ==
    IF OccursAt(s, NSString, i) THEN LazyRun(s, i + Len(NSString)) ELSE Null

RECURSIVE MatchFrom(_, _)
MatchFrom(s, i) ==
    IF i > Len(s) + 1 THEN Null
    ELSE IF PatternAt(s, i) # Null THEN PatternAt(s, i)
    ELSE MatchFrom(s, i + 1)

\* match: Null when the pattern matches nowhere, else capture group 1.
Match(s) == MatchFrom(s, 1)

(***************************************************************************)
(* parseAttributedBody, statement by statement.                            *)
(***************************************************************************)
\* Mutant: the null check left out.
NeverFalsy(b) == FALSE

\* !buffer: a Buffer object is truthy whatever its length; null is falsy.
IsFalsy(b) == b = Null

\* Mutant: a catch block that rethrows.
Rethrow == [outcome |-> "threw", result |-> Null]

\* catch (_error) { return null; }
CatchHandler == [outcome |-> "returned", result |-> Null]

\* Mutant: the splits assigned to a fresh local, so that the fallback scans
\* the whole decoded text.
Stage1KeepsText(text) ==
    IF ~Includes(text, NSNumber) THEN [done |-> FALSE, value |-> Null, body |-> text]
    ELSE LET b1 == Split(text, NSNumber)[1]
         IN  IF ~Includes(b1, NSString) THEN [done |-> FALSE, value |-> Null, body |-> text]
             ELSE LET b2 == Split(b1, NSString)[2]
                  IN  IF ~Includes(b2, NSDictionary)
                      THEN [done |-> FALSE, value |-> Null, body |-> text]
                      ELSE LET b3 == Split(b2, NSDictionary)[1]
                           IN  IF Len(b3) > 18
                               THEN [done |-> TRUE,
                                     value |-> Str(Trim(Substring(b3, 6, Len(b3) - 12))),
                                     body |-> b3]
                               ELSE [done |-> FALSE, value |-> Null, body |-> text]

\* Lines 74-95.  done: the function returned value; otherwise it falls to the
\* fallback with the local attributedBody as narrowed so far (body).
Stage1(text) ==
    IF ~Includes(text, NSNumber) THEN [done |-> FALSE, value |-> Null, body |-> text]
    ELSE LET b1 == Split(text, NSNumber)[1]
         IN  IF ~Includes(b1, NSString) THEN [done |-> FALSE, value |-> Null, body |-> b1]
             ELSE LET b2 == Split(b1, NSString)[2]
                  IN  IF ~Includes(b2, NSDictionary)
                      THEN [done |-> FALSE, value |-> Null, body |-> b2]
                      ELSE LET b3 == Split(b2, NSDictionary)[1]
                           IN  IF Len(b3) > 18
                               THEN [done |-> TRUE,
                                     value |-> Str(Trim(Substring(b3, 6, Len(b3) - 12))),
                                     body |-> b3]
                               ELSE [done |-> FALSE, value |-> Null, body |-> b3]

\* Mutant: a fallback that hands back the trimmed text when nothing matches.
FallbackRawText(text) ==
    LET m == Match(text)
    IN  IF m # Null /\ m.val # <<>> THEN Str(Trim(m.val)) ELSE Str(Trim(text))

\* Lines 99-104: match?.[1] is truthy exactly when it is a non-empty string.
Fallback(text) ==
    LET m == Match(text)
    IN  IF m # Null /\ m.val # <<>> THEN Str(Trim(m.val)) ELSE Null

(***************************************************************************)
(* Input buffers: up to MaxPieces fragments, concatenated.                 *)
(***************************************************************************)
Artefact6 == <<95, 95, 95, 95, 95, 95>>

Artefact12 == Artefact6 \o Artefact6

\* U+1F44B, a 4-byte sequence that decodes to a surrogate pair.
Emoji == <<240, 159, 145, 139>>

Fragments ==
    << NSNumber, NSString, NSDictionary,
       NSString \o Artefact6,                   \* the marker and 6 units after it
       Artefact12 \o NSDictionary,              \* 12 units and the marker after them
       <<NUL>>,
       <<32>>,                                  \* " "
       <<32, 97>> \o Emoji \o <<32, 98, 32>>,   \* " a" Emoji " b "
       <<240, 159, 145>> >>                     \* Emoji cut short: invalid UTF-8

RECURSIVE Concat(_)
Concat(ps) == IF ps = <<>> THEN <<>> ELSE Fragments[Head(ps)] \o Concat(Tail(ps))

SmallBuffers ==
    { Concat(ps) : ps \in UNION { [1..n -> 1..Len(Fragments)] : n \in 0..MaxPieces } }

Buffers == {Null, Huge} \cup { Bytes(b) : b \in SmallBuffers }

\* No row is in the pipeline.
MaxCalls == 2

CallIds == 1..MaxCalls

\* An activation that has not been made.
NoCall == [pc |-> "idle", ref |-> 0, outcome |-> "pending", result |-> Null, steps |-> 0]

\* No activation of parseAttributedBody exists, and no buffer object.
CallsIdle ==
    /\ calls = [i \in CallIds |-> NoCall]
    /\ locals = [i \in CallIds |-> <<>>]
    /\ heap = <<>>

\* No date is being converted.
DatesIdle ==
    /\ date = Null
    /\ appleTime = Null
    /\ roundTrip = Null
    /\ dateStage = "idle"

\* parseDelimitedResult has not been called.
ListIdle ==
    /\ call = Null
    /\ parts = <<>>
    /\ items = <<>>
    /\ listStage = "idle"

\* phoneNumbersMatch has not been called.
PhonesIdle ==
    /\ phone1 = <<>>
    /\ phone2 = <<>>
    /\ matched = FALSE
    /\ phoneStage = "idle"

\* An activation of executeOSAScript that has not been made: its position, the
\* number in its file name, its script, how its body completed, its promise.
NoOsa == [pc |-> "idle", tmpFile |-> 0, script |-> Null, completion |-> Null, settled |-> Null]

\* An activation of sendMessage that has not been made.
NoSend == [pc |-> "idle", options |-> Null, value |-> Null]

\* sendMessage has not been called.
ScriptIdle ==
    /\ tmpFiles = {}
    /\ osa = NoOsa
    /\ sending = NoSend
    /\ ran = Null

\* No tool has been called.
ToolsIdle ==
    /\ request = Null
    /\ handleId = Null
    /\ response = Null
    /\ toolStage = "idle"

AppsIdle == PhonesIdle /\ ScriptIdle /\ ToolsIdle

PipelineIdle ==
    /\ row = [text |-> Null, attributedBody |-> Null]
    /\ message = [text |-> Null, attributedBody |-> Null]
    /\ rendered = Null
    /\ decodes = 0
    /\ stage = "idle"

Init ==
    /\ buffer \in Buffers
    /\ pc = "entry"
    /\ attributedBody = <<>>
    /\ decoded = FALSE
    /\ outcome = "pending"
    /\ result = Null
    /\ PipelineIdle
    /\ CallsIdle
    /\ DatesIdle
    /\ ListIdle
    /\ AppsIdle

\* Line 67: if (!buffer) return null;
Guard ==
    /\ pc = "entry"
    /\ IF IsFalsy(buffer)
       THEN /\ pc' = "done"
            /\ outcome' = "returned"
            /\ result' = Null
       ELSE /\ pc' = "try"
            /\ UNCHANGED <<outcome, result>>
    /\ UNCHANGED <<buffer, attributedBody, decoded>>
    /\ UNCHANGED notDecoderVars

\* Line 71: let attributedBody = buffer.toString("utf8"); it throws on a buffer
\* too long for a string (and on null, which has no toString).
Decode ==
    /\ pc = "try"
    /\ decoded' = TRUE
    /\ IF buffer.tag = "buffer"
       THEN /\ attributedBody' = Utf8Decode(buffer.val)
            /\ pc' = "stage1"
       ELSE /\ pc' = "catch"
            /\ UNCHANGED attributedBody
    /\ UNCHANGED <<buffer, outcome, result>>
    /\ UNCHANGED notDecoderVars

\* Lines 74-95.
MarkerExtraction ==
    /\ pc = "stage1"
    /\ LET r == Stage1(attributedBody)
       IN  /\ attributedBody' = r.body
           /\ IF r.done
              THEN /\ pc' = "done"
                   /\ outcome' = "returned"
                   /\ result' = r.value
              ELSE /\ pc' = "fallback"
                   /\ UNCHANGED <<outcome, result>>
    /\ UNCHANGED <<buffer, decoded>>
    /\ UNCHANGED notDecoderVars

\* Lines 99-104.
PatternScan ==
    /\ pc = "fallback"
    /\ pc' = "done"
    /\ outcome' = "returned"
    /\ result' = Fallback(attributedBody)
    /\ UNCHANGED <<buffer, attributedBody, decoded>>
    /\ UNCHANGED notDecoderVars

\* Lines 105-107.
Catch ==
    /\ pc = "catch"
    /\ pc' = "done"
    /\ outcome' = CatchHandler.outcome
    /\ result' = CatchHandler.result
    /\ UNCHANGED <<buffer, attributedBody, decoded>>
    /\ UNCHANGED notDecoderVars

Next == Guard \/ Decode \/ MarkerExtraction \/ PatternScan \/ Catch

Spec == Init /\ [][Next]_vars

(***************************************************************************)
(* Inputs laid out as the marker path reads them: what precedes the        *)
(* candidate span, the span, and what follows it.                          *)
(***************************************************************************)
MaxSpanPieces == 3

Pad4 == <<95, 95, 95, 95>>

SpanPieces ==
    << Artefact6,
       Artefact6 \o <<98>>,                     \* 6 units and "b"
       Pad4,
       NSString,
       <<NUL>>,
       <<32>> >>

RECURSIVE SpanOf(_)
SpanOf(ps) == IF ps = <<>> THEN <<>> ELSE SpanPieces[Head(ps)] \o SpanOf(Tail(ps))

Spans ==
    { SpanOf(ps) : ps \in UNION { [1..n -> 1..Len(SpanPieces)] : n \in 0..MaxSpanPieces } }

Leads == { <<>>, NSString, NSNumber }

Trails ==
    { <<>>,
      NSNumber,
      NSDictionary \o NSNumber,
      NSDictionary \o NSNumber \o NSString \o <<NUL, 99>> }

MarkedBuffers ==
    {Null, Huge} \cup { Bytes(l \o x \o t) : l \in Leads, x \in Spans, t \in Trails }

MarkerInit ==
    /\ buffer \in MarkedBuffers
    /\ pc = "entry"
    /\ attributedBody = <<>>
    /\ decoded = FALSE
    /\ outcome = "pending"
    /\ result = Null
    /\ PipelineIdle
    /\ CallsIdle
    /\ DatesIdle
    /\ ListIdle
    /\ AppsIdle

MarkerSpec == MarkerInit /\ [][Next]_vars

(***************************************************************************)
(* The call as a whole, for the callers of parseAttributedBody.            *)
(***************************************************************************)
ParseAttributedBody(b) ==
    IF IsFalsy(b) THEN Null
    ELSE IF b.tag # "buffer" THEN CatchHandler.result
    ELSE LET r == Stage1(Utf8Decode(b.val))
         IN  IF r.done THEN r.value ELSE Fallback(r.body)

\* The number of toString("utf8") decodings one call with argument b makes.
Decodings(b) == IF IsFalsy(b) THEN 0 ELSE 1

(***************************************************************************)
(* IMessageClient.enrichMessage (client.ts) and formatMessage (utils.ts),  *)
(* as far as the message text and the blob go: the other columns are       *)
(* copied, the sender and the date are rendered next to the text.          *)
(***************************************************************************)
\* A string | null value that is truthy: a non-empty string.
Truthy(v) == v # Null /\ v.val # <<>>

\* a ?? b
Coalesce(a, b) == IF a # Null THEN a ELSE b

\* Mutant: the decoded text first, the column as the fallback.
EnrichTextBlobFirst(r) == Coalesce(ParseAttributedBody(r.attributedBody), r.text)

\* client.ts 456-458: (r.text) || parseAttributedBody(r.attributedBody)
EnrichText(r) ==
    IF Truthy(r.text) THEN r.text ELSE ParseAttributedBody(r.attributedBody)

\* Mutant: the blob decoded before the column is looked at.
EnrichCallsEager(r) == <<r.attributedBody>>

\* The arguments enrichMessage calls parseAttributedBody with: || evaluates its
\* right side only when the left side is falsy.
EnrichCalls(r) == IF Truthy(r.text) THEN <<>> ELSE <<r.attributedBody>>

\* client.ts 453-474: the text resolved, the blob kept (line 473).
EnrichMessage(r) == [text |-> EnrichText(r), attributedBody |-> r.attributedBody]

\* utils.ts 153-161 for a Buffer | null blob: the calls of parseAttributedBody.
FormatCalls(msg) == IF msg.attributedBody # Null THEN <<msg.attributedBody>> ELSE <<>>

\* utils.ts 152-165: the text formatMessage puts after the sender.
FormatText(msg) ==
    LET text == IF msg.attributedBody # Null
                THEN Coalesce(ParseAttributedBody(msg.attributedBody), msg.text)
                ELSE msg.text
    IN  Coalesce(text, Str(<<>>))

RECURSIVE DecodingsOf(_)
DecodingsOf(args) ==
    IF args = <<>> THEN 0 ELSE Decodings(Head(args)) + DecodingsOf(Tail(args))

(***************************************************************************)
(* Rows: a text column and a blob of up to MaxRowPieces fragments, or one  *)
(* of the sample blobs.                                                    *)
(***************************************************************************)
MaxRowPieces == 2

\* "__kIMMessagePartAttributeName"
KIMMessagePart ==
    <<95, 95, 107, 73, 77, 77, 101, 115, 115, 97, 103, 101, 80, 97, 114, 116,
      65, 116, 116, 114, 105, 98, 117, 116, 101, 78, 97, 109, 101>>

SampleBlobs ==
    { NSString \o Artefact6 \o <<98>> \o Artefact12 \o NSDictionary \o NSNumber,
      NSString \o <<NUL, 98, NUL>>,
      NSString \o <<NUL, 32, NUL>>,
      NSString \o <<NUL, 240, 159, 145, 240, 159, 145>>,
      NSString \o <<NUL>> \o KIMMessagePart }

RowBlobs ==
    {Null}
    \cup { Bytes(Concat(ps)) :
             ps \in UNION { [1..n -> 1..Len(Fragments)] : n \in 0..MaxRowPieces } }
    \cup { Bytes(b) : b \in SampleBlobs }

\* The text column: NULL, "", "a", "b ".
RowTexts == {Null, Str(<<>>), Str(<<97>>), Str(<<98, 32>>)}

\* No call of parseAttributedBody is being stepped through.
DecoderIdle ==
    /\ buffer = Null
    /\ pc = "idle"
    /\ attributedBody = <<>>
    /\ decoded = FALSE
    /\ outcome = "pending"
    /\ result = Null

\* A row has been fetched.
PipelineInit ==
    /\ DecoderIdle
    /\ row \in [text : RowTexts, attributedBody : RowBlobs]
    /\ message = [text |-> Null, attributedBody |-> Null]
    /\ rendered = Null
    /\ decodes = 0
    /\ stage = "fetched"
    /\ CallsIdle
    /\ DatesIdle
    /\ ListIdle
    /\ AppsIdle

\* getMessages and the other queries: rows.map((row) => this.enrichMessage(row))
Enrich ==
    /\ stage = "fetched"
    /\ message' = EnrichMessage(row)
    /\ decodes' = decodes + DecodingsOf(EnrichCalls(row))
    /\ stage' = "enriched"
    /\ UNCHANGED <<row, rendered>>
    /\ UNCHANGED notPipelineVars

\* The MCP tools: messages.map((msg) => formatMessage(msg))
Format ==
    /\ stage = "enriched"
    /\ rendered' = FormatText(message)
    /\ decodes' = decodes + DecodingsOf(FormatCalls(message))
    /\ stage' = "formatted"
    /\ UNCHANGED <<row, message>>
    /\ UNCHANGED notPipelineVars

PipelineNext == Enrich \/ Format

PipelineSpec == PipelineInit /\ [][PipelineNext]_vars

(***************************************************************************)
(* Several activations of parseAttributedBody, one after another or with   *)
(* their steps interleaved.  The callers' buffers are objects in heap, an  *)
(* activation holds a reference to one (0 for null); the binding of        *)
(* `let attributedBody` of activation i is locals[Slot(i)].                *)
(***************************************************************************)
\* The callers' buffers: the third and the fourth hold the same bytes; the
\* sixth is the second, and the eighth the seventh, with other bytes after the
\* first NSNumber.
CallerBlobs ==
    << Huge,
       Bytes(NSString \o Artefact6 \o <<98>> \o Artefact12 \o NSDictionary \o NSNumber),
       Bytes(NSString \o <<NUL, 98, NUL>>),
       Bytes(NSString \o <<NUL, 98, NUL>>),
       Bytes(<<97>>),
       Bytes(NSString \o Artefact6 \o <<98>> \o Artefact12 \o NSDictionary \o NSNumber
             \o NSString \o <<NUL, 99>>),
       Bytes(NSString \o <<NUL, 98>> \o NSNumber),
       Bytes(NSString \o <<NUL, 98>> \o NSNumber \o NSString \o <<NUL, 99>>) >>

Refs == 0..Len(CallerBlobs)

Deref(h, ref) == IF ref = 0 THEN Null ELSE h[ref]

\* Mutant: toString that empties the buffer it reads.
BufferToStringDraining(h, ref) ==
    [text |-> Utf8Decode(h[ref].val), heap |-> [h EXCEPT ![ref] = Bytes(<<>>)]]

\* Line 70: buffer.toString("utf8") makes a new string and leaves the bytes.
BufferToString(h, ref) == [text |-> Utf8Decode(h[ref].val), heap |-> h]

\* Mutant: one binding of attributedBody for all activations.
SharedSlot(i) == 1

\* `let attributedBody` (line 70) is a binding of the activation.
Slot(i) == i

\* Mutant: a return that starts the function over.
Retry(f, v) == [f EXCEPT !.pc = "entry", !.steps = f.steps + 1]

\* return v: the activation ends and its binding with it.
Return(f, v) ==
    [f EXCEPT !.pc = "done", !.outcome = "returned", !.result = v,
              !.steps = f.steps + 1]

Goto(f, p) == [f EXCEPT !.pc = p, !.steps = f.steps + 1]

\* One step of activation f with binding l over heap h (lines 67-107).
Advance(f, l, h) ==
    CASE f.pc = "entry" ->
           IF IsFalsy(Deref(h, f.ref))
           THEN [frame |-> Return(f, Null), local |-> <<>>, heap |-> h]
           ELSE [frame |-> Goto(f, "try"), local |-> l, heap |-> h]
      [] f.pc = "try" ->
           IF h[f.ref].tag = "buffer"
           THEN LET t == BufferToString(h, f.ref)
                IN  [frame |-> Goto(f, "stage1"), local |-> t.text, heap |-> t.heap]
           ELSE [frame |-> Goto(f, "catch"), local |-> l, heap |-> h]
      [] f.pc = "stage1" ->
           LET r == Stage1(l)
           IN  IF r.done
               THEN [frame |-> Return(f, r.value), local |-> <<>>, heap |-> h]
               ELSE [frame |-> Goto(f, "fallback"), local |-> r.body, heap |-> h]
      [] f.pc = "fallback" ->
           [frame |-> Return(f, Fallback(l)), local |-> <<>>, heap |-> h]
      [] f.pc = "catch" ->
           [frame |-> Return(f, CatchHandler.result), local |-> <<>>, heap |-> h]

\* The callers hold their buffers; nothing has been called.
CallsInit ==
    /\ DecoderIdle
    /\ PipelineIdle
    /\ calls = [i \in CallIds |-> NoCall]
    /\ locals = [i \in CallIds |-> <<>>]
    /\ heap = CallerBlobs
    /\ DatesIdle
    /\ ListIdle
    /\ AppsIdle

\* parseAttributedBody(buffer) is called: activation i with argument ref.
Invoke(i, ref) ==
    /\ calls[i].pc = "idle"
    /\ \A j \in CallIds : j < i => calls[j].pc # "idle"
    /\ calls' = [calls EXCEPT ![i] = [NoCall EXCEPT !.pc = "entry", !.ref = ref]]
    /\ UNCHANGED <<locals, heap>>
    /\ UNCHANGED notCallVars

\* Activation i takes its next step.
StepCall(i) ==
    /\ calls[i].pc \notin {"idle", "done"}
    /\ LET n == Advance(calls[i], locals[Slot(i)], heap)
       IN  /\ calls' = [calls EXCEPT ![i] = n.frame]
           /\ locals' = [locals EXCEPT ![Slot(i)] = n.local]
           /\ heap' = n.heap
    /\ UNCHANGED notCallVars

CallsNext ==
    \/ \E i \in CallIds, ref \in Refs : Invoke(i, ref)
    \/ \E i \in CallIds : StepCall(i)

CallsSpec == CallsInit /\ [][CallsNext]_vars

(***************************************************************************)
(* parseDelimitedResult (contacts-sdk utils.ts 28-50).  A parser is one of *)
(* the callbacks the tests pass: "pair" is                                 *)
(* ([name, phone]) => name && phone ? { name, phone } : null, "first" is   *)
(* (parts) => parts[0].                                                    *)
(***************************************************************************)
MaxResultLen == 4

\* "[]"
EmptyList == <<91, 93>>

\* "a", ";", "|", ",", ":"
ResultChars == {97, 59, 124, 44, 58}

Results ==
    {EmptyList} \cup UNION { [1..n -> ResultChars] : n \in 0..MaxResultLen }

\* The default delimiters and the custom ones of the tests.
Delimiters ==
    { [item |-> <<59>>, value |-> <<124>>], [item |-> <<44>>, value |-> <<58>>] }

Parsers == {"pair", "first"}

Obj(name, phone) == [tag |-> "object", val |-> <<name, phone>>]

\* values[i], undefined past the end; undefined is falsy like "".
ValueAt(values, i) == IF i <= Len(values) THEN values[i] ELSE <<>>

Parser(p, values) ==
    IF p = "pair"
    THEN IF ValueAt(values, 1) # <<>> /\ ValueAt(values, 2) # <<>>
         THEN Obj(values[1], values[2])
         ELSE Null
    ELSE Str(values[1])

\* if (parsed): null and "" are falsy, an object is truthy.
IsTruthy(v) == v # Null /\ ~(v.tag = "string" /\ v.val = <<>>)

ListInit ==
    /\ DecoderIdle
    /\ PipelineIdle
    /\ CallsIdle
    /\ DatesIdle
    /\ \E r \in Results, p \in Parsers, d \in Delimiters :
         call = [result |-> r, parser |-> p,
                 itemDelimiter |-> d.item, valueDelimiter |-> d.value]
    /\ parts = <<>>
    /\ items = <<>>
    /\ listStage = "called"
    /\ AppsIdle

\* Lines 34-39: the "[]" test, then result.split(itemDelimiter).
SplitItems ==
    /\ listStage = "called"
    /\ IF call.result = EmptyList
       THEN /\ listStage' = "returned"
            /\ UNCHANGED parts
       ELSE /\ listStage' = "loop"
            /\ parts' = Split(call.result, call.itemDelimiter)
    /\ UNCHANGED <<call, items>>
    /\ UNCHANGED notListVars

\* Lines 41-47: one round of the loop.
ParseItem ==
    /\ listStage = "loop"
    /\ parts # <<>>
    /\ LET values == Split(Head(parts), call.valueDelimiter)
           parsed == Parser(call.parser, values)
       IN  items' = IF IsTruthy(parsed) THEN Append(items, parsed) ELSE items
    /\ parts' = Tail(parts)
    /\ UNCHANGED <<call, listStage>>
    /\ UNCHANGED notListVars

\* Line 49: return items.
ReturnItems ==
    /\ listStage = "loop"
    /\ parts = <<>>
    /\ listStage' = "returned"
    /\ UNCHANGED <<call, parts, items>>
    /\ UNCHANGED notListVars

ListNext == SplitItems \/ ParseItem \/ ReturnItems

ListSpec == ListInit /\ [][ListNext]_vars

(***************************************************************************)
(* appleTimeToDate and dateToAppleTime (utils.ts 11-32) compute with       *)
(* JavaScript numbers: IEEE 754 doubles, every operation rounded to 53     *)
(* significant bits, ties to even.  A natural number is the sequence of    *)
(* its digits to the base Radix, lowest first, without leading zeros; a    *)
(* number is a sign, a natural m and an exponent e, standing for m * 2^e.  *)
(* The values here are far from the overflow and the subnormal range.  A   *)
(* multiplier or divisor is given by factors below Radix: 10^9 is          *)
(* 1000 * 1000 * 1000, and dividing by the factors in turn, rounding       *)
(* down, is dividing by their product, rounding down.                      *)
(***************************************************************************)
Precision == 53

LimbBits == 15

Radix == 2^LimbBits

RECURSIVE NatOf(_)
NatOf(n) == IF n = 0 THEN <<>> ELSE <<n % Radix>> \o NatOf(n \div Radix)

\* x without its leading zeros
Norm(x) ==
    LET set == {i \in 1..Len(x) : x[i] # 0}
    IN  IF set = {} THEN <<>>
        ELSE SubSeq(x, 1, CHOOSE i \in set : \A j \in set : j <= i)

Zeros(k) == [i \in 1..k |-> 0]

\* x * c + carry, for 0 < c <= Radix
RECURSIVE MulCarry(_, _, _)
MulCarry(x, c, carry) ==
    IF x = <<>> THEN NatOf(carry)
    ELSE LET v == Head(x) * c + carry
         IN  <<v % Radix>> \o MulCarry(Tail(x), c, v \div Radix)

MulSmall(x, c) == MulCarry(x, c, 0)

\* x times every factor of cs
RECURSIVE MulAll(_, _)
MulAll(x, cs) == IF cs = <<>> THEN x ELSE MulAll(MulSmall(x, Head(cs)), Tail(cs))

RECURSIVE AddCarry(_, _, _)
AddCarry(x, y, carry) ==
    IF x = <<>> /\ y = <<>> THEN NatOf(carry)
    ELSE LET a == IF x = <<>> THEN 0 ELSE Head(x)
             b == IF y = <<>> THEN 0 ELSE Head(y)
             v == a + b + carry
         IN  <<v % Radix>> \o AddCarry(IF x = <<>> THEN <<>> ELSE Tail(x),
                                       IF y = <<>> THEN <<>> ELSE Tail(y),
                                       v \div Radix)

Add(x, y) == AddCarry(x, y, 0)

\* x - y - borrow for x >= y + borrow, not normalised
RECURSIVE SubBorrow(_, _, _)
SubBorrow(x, y, borrow) ==
    IF x = <<>> THEN <<>>
    ELSE LET b == IF y = <<>> THEN 0 ELSE Head(y)
             v == Head(x) - b - borrow
         IN  <<v % Radix>> \o SubBorrow(Tail(x), IF y = <<>> THEN <<>> ELSE Tail(y),
                                        IF v < 0 THEN 1 ELSE 0)

Sub(x, y) == Norm(SubBorrow(x, y, 0))

\* x < y, from the highest digit down
RECURSIVE LessFrom(_, _, _)
LessFrom(x, y, i) ==
    IF i = 0 THEN FALSE
    ELSE IF x[i] # y[i] THEN x[i] < y[i]
    ELSE LessFrom(x, y, i - 1)

Less(x, y) ==
    IF Len(x) # Len(y) THEN Len(x) < Len(y) ELSE LessFrom(x, y, Len(x))

\* Quotient (not normalised) and remainder of x by c, for 0 < c <= Radix
RECURSIVE DivRem(_, _)
DivRem(x, c) ==
    IF x = <<>> THEN [q |-> <<>>, r |-> 0]
    ELSE LET hi == DivRem(Tail(x), c)
             v == Radix * hi.r + Head(x)
         IN  [q |-> <<v \div c>> \o hi.q, r |-> v % c]

\* x divided by every factor of cs in turn, and whether nothing was left over
RECURSIVE DivAll(_, _)
DivAll(x, cs) ==
    IF cs = <<>> THEN [q |-> x, exact |-> TRUE]
    ELSE LET d == DivRem(x, Head(cs))
             rest == DivAll(Norm(d.q), Tail(cs))
         IN  [q |-> rest.q, exact |-> d.r = 0 /\ rest.exact]

\* The number of bits of x
BitLen(x) ==
    IF x = <<>> THEN 0
    ELSE LET top == x[Len(x)]
             width == CHOOSE w \in 1..LimbBits : 2^(w - 1) <= top /\ top < 2^w
         IN  LimbBits * (Len(x) - 1) + width

\* x * 2^k
ShiftLeft(x, k) ==
    IF x = <<>> THEN <<>>
    ELSE Zeros(k \div LimbBits) \o MulSmall(x, 2^(k % LimbBits))

\* x \div 2^k, and whether a bit was shifted out
ShiftRight(x, k) ==
    LET n == k \div LimbBits
    IN  IF n >= Len(x) THEN [q |-> <<>>, lost |-> x # <<>>]
        ELSE LET d == DivRem(SubSeq(x, n + 1, Len(x)), 2^(k % LimbBits))
             IN  [q |-> Norm(d.q),
                  lost |-> d.r # 0 \/ \E i \in 1..n : x[i] # 0]

Odd(x) == x # <<>> /\ x[1] % 2 = 1

Number(neg, m, e) == [tag |-> "number", neg |-> neg /\ m # <<>>, m |-> m, e |-> e]

\* The integer with sign neg and magnitude millions * 10^6 + units.
Integer(neg, millions, units) ==
    Number(neg, Add(MulAll(NatOf(millions), <<1000, 1000>>), NatOf(units)), 0)

\* m * 2^e, or a little more when sticky, rounded to Precision bits.
Round(neg, m, e, sticky) ==
    LET k == BitLen(m) - Precision
    IN  IF k <= 0 THEN Number(neg, m, e)
        ELSE LET low == ShiftRight(m, k - 1)
                 kept == ShiftRight(low.q, 1).q
                 half == Odd(low.q)
                 rest == sticky \/ low.lost
                 up == half /\ (rest \/ Odd(kept))
             IN  Number(neg, IF up THEN Add(kept, <<1>>) ELSE kept, e + k)

\* x * c, c the product of cs
Times(x, cs) == Round(x.neg, MulAll(x.m, cs), x.e, FALSE)

\* x / c, c the product of cs: the quotient is taken to more than Precision
\* bits, the remainder says whether anything is left beyond them.
DividedBy(x, cs) ==
    LET need == Precision + 2 + BitLen(MulAll(<<1>>, cs)) - BitLen(x.m)
        k == IF need > 0 THEN need ELSE 0
        d == DivAll(ShiftLeft(x.m, k), cs)
    IN  Round(x.neg, d.q, x.e - k, ~d.exact)

\* x + y
Plus(x, y) ==
    LET e == IF x.e < y.e THEN x.e ELSE y.e
        a == ShiftLeft(x.m, x.e - e)
        b == ShiftLeft(y.m, y.e - e)
    IN  IF x.neg = y.neg THEN Round(x.neg, Add(a, b), e, FALSE)
        ELSE IF Less(a, b) THEN Round(y.neg, Sub(b, a), e, FALSE)
        ELSE Round(x.neg, Sub(a, b), e, FALSE)

Minus(x, y) == Plus(x, Number(~y.neg, y.m, y.e))

\* The integer part of the magnitude, and whether a fraction is left.
Whole(x) ==
    IF x.e >= 0 THEN [m |-> ShiftLeft(x.m, x.e), frac |-> FALSE]
    ELSE LET s == ShiftRight(x.m, -x.e)
         IN  [m |-> s.q, frac |-> s.lost]

\* Math.floor
Floor(x) ==
    LET w == Whole(x)
    IN  IF x.neg /\ w.frac THEN Number(TRUE, Add(w.m, <<1>>), 0)
        ELSE Number(x.neg, w.m, 0)

\* 8.64e15, the largest time value of a Date
MaxTime == MulAll(NatOf(864), <<10000, 10000, 10000, 10>>)

InvalidDate == [tag |-> "invalid", neg |-> FALSE, m |-> <<>>, e |-> 0]

\* new Date(x): TimeClip drops the fraction, and gives an invalid date past
\* MaxTime.
NewDate(x) ==
    LET w == Whole(x)
    IN  IF Less(MaxTime, w.m) \/ (w.m = MaxTime /\ w.frac) THEN InvalidDate
        ELSE Number(x.neg, w.m, 0)

\* Seconds from 1970-01-01 to 2001-01-01 (lines 13 and 28).
APPLE_EPOCH == 978307200

Thousand == <<1000>>

Billion == <<1000, 1000, 1000>>

\* Lines 11-22.
AppleTimeToDate(t) ==
    LET seconds == DividedBy(t, Billion)
        unixTimestamp == Plus(seconds, Integer(FALSE, 0, APPLE_EPOCH))
    IN  NewDate(Times(unixTimestamp, Thousand))

\* Lines 27-32.
DateToAppleTime(d) ==
    LET unixTimestamp == Floor(DividedBy(d, Thousand))
        seconds == Minus(unixTimestamp, Integer(FALSE, 0, APPLE_EPOCH))
    IN  Times(seconds, Billion)

MaxSecondOffset == 5

\* Unix seconds of 1970-01-01, 2001-01-01, 2024-01-15T12:30:00Z (the date of
\* the tests), 1900-01-01 and 2191-10-27, as sign, millions and units.
DateAnchors ==
    { [neg |-> FALSE, millions |-> 0, units |-> 0],
      [neg |-> FALSE, millions |-> 978, units |-> 307200],
      [neg |-> FALSE, millions |-> 1705, units |-> 321800],
      [neg |-> TRUE, millions |-> 2208, units |-> 988800],
      [neg |-> FALSE, millions |-> 7000, units |-> 0] }

Millis == {0, 1, 999}

\* The Date offset seconds and ms milliseconds further from 1970 than anchor a.
DateAt(a, offset, ms) ==
    LET secs == Integer(FALSE, a.millions, a.units + offset)
    IN  Number(a.neg, Add(MulSmall(secs.m, 1000), NatOf(ms)), 0)

Dates ==
    { DateAt(a, offset, ms) :
        a \in DateAnchors, offset \in 0..MaxSecondOffset, ms \in Millis }

DatesInit ==
    /\ DecoderIdle
    /\ PipelineIdle
    /\ CallsIdle
    /\ ListIdle
    /\ date \in Dates
    /\ appleTime = Null
    /\ roundTrip = Null
    /\ dateStage = "date"
    /\ AppsIdle

\* dateToAppleTime(date)
ToAppleTime ==
    /\ dateStage = "date"
    /\ appleTime' = DateToAppleTime(date)
    /\ dateStage' = "apple"
    /\ UNCHANGED <<date, roundTrip>>
    /\ UNCHANGED notDateVars

\* appleTimeToDate(appleTime)
ToDate ==
    /\ dateStage = "apple"
    /\ roundTrip' = AppleTimeToDate(appleTime)
    /\ dateStage' = "back"
    /\ UNCHANGED <<date, appleTime>>
    /\ UNCHANGED notDateVars

DatesNext == ToAppleTime \/ ToDate

DatesSpec == DatesInit /\ [][DatesNext]_vars

(***************************************************************************)
(* Properties.  Text is the decoded text of the input buffer; the          *)
(* definitions below describe the expected results on it in the claims'    *)
(* own terms, without the operators the steps are built from.              *)
(***************************************************************************)
Returned == pc = "done"

HasBytes == buffer.tag = "buffer"

Text == Utf8Decode(buffer.val)

\* Everything of t before position i, and everything from position i on.
Before(t, i) == SubSeq(t, 1, i - 1)

From(t, i) == SubSeq(t, i, Len(t))

\* Positions of t where marker m starts; the first of them (0 if none).
Starts(t, m) == { p \in 1..Len(t) : OccursAt(t, m, p) }

First(t, m) ==
    IF Starts(t, m) = {} THEN 0
    ELSE CHOOSE p \in Starts(t, m) : \A q \in Starts(t, m) : p <= q

\* The first NUL of t at or after position j (0 if none).
FirstNul(t, j) ==
    LET nuls == { k \in j..Len(t) : t[k] = NUL }
    IN  IF nuls = {} THEN 0 ELSE CHOOSE k \in nuls : \A l \in nuls : k <= l

\* An NSString at p whose first following NUL is directly followed by a unit
\* other than NUL.
Capturing(t, p) ==
    /\ OccursAt(t, NSString, p)
    /\ LET k == FirstNul(t, p + Len(NSString))
       IN  k # 0 /\ k + 1 <= Len(t) /\ t[k + 1] # NUL

\* The longest run of units other than NUL that starts at position j.
RunFrom(t, j) ==
    LET ends == { e \in j..Len(t) : \A x \in j..e : t[x] # NUL }
    IN  SubSeq(t, j, CHOOSE e \in ends : \A f \in ends : f <= e)

\* What the pattern scan is to yield on t: the trimmed run after the leftmost
\* capturing NSString, null when there is none.
ScanOf(t) ==
    LET good == { p \in 1..Len(t) : Capturing(t, p) }
    IN  IF good = {} THEN Null
        ELSE LET p == CHOOSE x \in good : \A y \in good : x <= y
             IN  Str(Trim(RunFrom(t, FirstNul(t, p + Len(NSString)) + 1)))

\* The text before the first NSNumber, and in it what follows the first NSString.
Prefix(t) == Before(t, First(t, NSNumber))

AfterString(t) == From(Prefix(t), First(Prefix(t), NSString) + Len(NSString))

\* C1: for every byte sequence (invalid UTF-8, embedded NUL bytes, a buffer too
\* long to decode) and for null, the call never throws: it returns a string or null.
C1_NeverThrows ==
    /\ outcome # "threw"
    /\ Returned => outcome = "returned" /\ result.tag \in {"null", "string"}

\* C1 witness: the decoding threw inside the call, and the call returned.
C1_Witness == Returned /\ buffer = Huge /\ decoded /\ outcome = "returned"

\* C2: a non-null result is a non-empty string.
C2_NonNullIsNonEmpty == Returned /\ result # Null => result.val # <<>>

\* C3: with NSNumber in the text, and NSString missing before the first NSNumber
\* or NSDictionary missing after the NSString position, the result is the pattern
\* scan of the full decoded text.
C3_AbortScansFullText ==
    Returned /\ HasBytes /\ Includes(Text, NSNumber)
        /\ (\/ ~Includes(Prefix(Text), NSString)
            \/ ~Includes(AfterString(Text), NSDictionary))
    => result = ScanOf(Text)

\* C4: with the three markers in order and a candidate span of 18 or fewer units,
\* the result is the pattern scan of the decoded text.
C4_ShortSpanScansText ==
    Returned /\ HasBytes /\ Includes(Text, NSNumber)
        /\ Includes(Prefix(Text), NSString)
        /\ Includes(AfterString(Text), NSDictionary)
        /\ First(AfterString(Text), NSDictionary) - 1 <= 18
    => result = ScanOf(Text)

\* C5: for a text P NSString A X B NSDictionary S NSNumber R, with A of 6 units,
\* B of 12, X of one or more, and each marker shown being its first occurrence,
\* the result is X trimmed.
C5_Stage1Extraction ==
    LET i == First(Text, NSString)
        d == First(Text, NSDictionary)
        n == First(Text, NSNumber)
    IN  Returned /\ HasBytes /\ i # 0 /\ d # 0 /\ n # 0
            /\ i + Len(NSString) + 6 + 1 + 12 <= d
            /\ d + Len(NSDictionary) <= n
        => result = Str(Trim(SubSeq(Text, i + Len(NSString) + 6, d - 12 - 1)))

C7_NullWithoutDecoding ==
    buffer = Null => ~decoded /\ (Returned => outcome = "returned" /\ result = Null)

\* C7 witness: the call on null has returned.
C7_Witness == buffer = Null /\ Returned

\* C8: for a zero-length buffer the call returns null.
C8_EmptyBufferIsNull == Returned /\ buffer = Bytes(<<>>) => result = Null

\* C8 witness: the call on the zero-length buffer has returned, having decoded it.
C8_Witness == Returned /\ buffer = Bytes(<<>>) /\ decoded

\* C9: for a text with none of the three markers, the result is that of the
\* pattern scan, and null whenever the pattern matches nowhere.
C9_NoMarkersScanDecides ==
    Returned /\ HasBytes
        /\ ~Includes(Text, NSNumber) /\ ~Includes(Text, NSString)
        /\ ~Includes(Text, NSDictionary)
    => /\ result = ScanOf(Text)
       /\ (\A p \in 1..Len(Text) : ~Capturing(Text, p)) => result = Null

\* C9 witness: a text without markers in which a NUL is followed by text.
C9_Witness ==
    /\ Returned /\ HasBytes /\ result = Null
    /\ ~Includes(Text, NSNumber) /\ ~Includes(Text, NSString)
    /\ ~Includes(Text, NSDictionary)
    /\ \E k \in 1..(Len(Text) - 1) : Text[k] = NUL /\ Text[k + 1] # NUL

\* C10: a non-null result has no leading and no trailing whitespace.
C10_ResultIsTrimmed ==
    Returned /\ result.tag = "string" /\ result.val # <<>>
    => ~IsWhitespace(result.val[1]) /\ ~IsWhitespace(result.val[Len(result.val)])

\* C10 witness: the marker path returned text whose stripped span began and
\* ended with whitespace.
C10_Witness ==
    /\ Returned /\ HasBytes /\ Stage1(Text).done
    /\ result.tag = "string" /\ result.val # <<>>
    /\ LET span == Stage1(Text).body
       IN  IsWhitespace(span[7]) /\ IsWhitespace(span[Len(span) - 12])

Enriched == stage \in {"enriched", "formatted"}

BlobText(r) == Utf8Decode(r.attributedBody.val)

\* C11: the enriched text is the text column when that is non-empty, and else
\* what the decoder returns for the row's blob: null for an absent blob and for
\* a blob without an NSString to extract from.
C11_EnrichmentRule ==
    Enriched =>
        /\ Truthy(row.text) => message.text = row.text
        /\ ~Truthy(row.text) =>
            /\ message.text = ParseAttributedBody(row.attributedBody)
            /\ row.attributedBody = Null => message.text = Null
            /\ (row.attributedBody # Null /\ ~Includes(BlobText(row), NSString))
                  => message.text = Null

\* C11 witness: a row with an empty text column whose blob gave the text, and a
\* row with a text column whose blob decodes to something else.
C11_Witness ==
    /\ Enriched /\ row.text = Str(<<>>) /\ row.attributedBody # Null
    /\ Truthy(message.text)

\* C12: formatMessage renders the enriched message's text field.
C12_RendersResolvedText ==
    stage = "formatted" => rendered = Coalesce(message.text, Str(<<>>))

C18_NoContainerData ==
    Enriched /\ Truthy(message.text) =>
        /\ ~Includes(message.text.val, NSNumber)
        /\ ~Includes(message.text.val, KIMMessagePart)
        /\ ~Includes(message.text.val, <<ReplacementChar, ReplacementChar>>)

Done(i) == calls[i].pc = "done"

Running(i) == calls[i].pc \notin {"idle", "done"}

Given(i) == Deref(CallerBlobs, calls[i].ref)

C15_InputUnchanged ==
    /\ heap = CallerBlobs
    /\ \A i \in CallIds : Done(i) => locals[i] = <<>>

\* C15 witness: an activation has decoded its buffer and returned a text.
C15_Witness ==
    \E i \in CallIds :
        Done(i) /\ calls[i].result.tag = "string" /\ heap[calls[i].ref].tag = "buffer"

\* C16: an activation whose steps are interleaved with another's returns what
\* parseAttributedBody returns for its buffer on its own.
C16_ConcurrentAsSolitary ==
    \A i \in CallIds :
        Done(i) =>
            /\ calls[i].outcome = "returned"
            /\ calls[i].result = ParseAttributedBody(Given(i))

\* C16 witness: a later activation has returned a text while an earlier one, on
\* another buffer, holds its decoded text and has not returned.
C16_Witness ==
    \E i, j \in CallIds :
        /\ i < j /\ calls[i].pc \in {"stage1", "fallback"} /\ locals[i] # <<>>
        /\ Done(j) /\ calls[j].result.tag = "string"
        /\ Given(i) # Given(j)

Rank(p) ==
    CASE p = "idle" -> 0
      [] p = "entry" -> 0
      [] p = "try" -> 1
      [] p \in {"stage1", "catch"} -> 2
      [] p = "fallback" -> 3
      [] p = "done" -> 4

\* C17: an activation has taken no more steps than the place it has reached
\* allows, four at most, and one that has not returned is at a place whose
\* step leads to a place of higher rank.
C17_Terminates ==
    \A i \in CallIds :
        /\ calls[i].steps <= Rank(calls[i].pc)
        /\ Running(i) =>
              Rank(Advance(calls[i], locals[i], heap).frame.pc) > Rank(calls[i].pc)

\* C17 witness: an activation that went through all four steps.
C17_Witness ==
    \E i \in CallIds : Done(i) /\ calls[i].steps = Rank("done")

\* The parser's results for the items ps, in order, without the nulls and
\* without the results for empty items.
RECURSIVE Accepted(_, _)
Accepted(ps, c) ==
    IF ps = <<>> THEN <<>>
    ELSE LET r == Parser(c.parser, Split(Head(ps), c.valueDelimiter))
         IN  (IF r = Null \/ Head(ps) = <<>> THEN <<>> ELSE <<r>>)
             \o Accepted(Tail(ps), c)

\* C20: "[]" gives the empty list; any other input gives, in input order, the
\* parser's results for its items, leaving out the nulls (and whatever the
\* parser makes of an empty item).
C20_KeepsNonNullResults ==
    listStage = "returned" =>
        items = IF call.result = EmptyList THEN <<>>
                ELSE Accepted(Split(call.result, call.itemDelimiter), call)

Epoch2001 == Number(FALSE, MulSmall(NatOf(APPLE_EPOCH), 1000), 0)

\* C19: the date that comes back differs from the date that went in by less
\* than 1000 ms, and the Apple time of 2001-01-01T00:00:00Z is 0.
C19_RoundTripWithinASecond ==
    /\ dateStage = "back" =>
         /\ roundTrip.tag = "number"
         /\ Less(Whole(Minus(date, roundTrip)).m, NatOf(1000))
    /\ (dateStage \in {"apple", "back"} /\ date = Epoch2001) => appleTime.m = <<>>

GivenText(i) == Utf8Decode(Given(i).val)

Marked(i) == Given(i).tag = "buffer" /\ Includes(GivenText(i), NSNumber)

\* C26: two activations whose decoded texts contain NSNumber and are the same
\* up to the first NSNumber return the same result.
C26_OnlyThePrefixCounts ==
    \A i, j \in CallIds :
        Done(i) /\ Done(j) /\ Marked(i) /\ Marked(j)
            /\ Prefix(GivenText(i)) = Prefix(GivenText(j))
        => calls[i].result = calls[j].result

\* C26 witness: two buffers that differ after the first NSNumber, where what
\* differs holds an NSString, a NUL and text, both decoded.
C26_Witness ==
    \E i, j \in CallIds :
        /\ Done(i) /\ Done(j) /\ Marked(i) /\ Marked(j)
        /\ Prefix(GivenText(i)) = Prefix(GivenText(j))
        /\ GivenText(i) # GivenText(j)
        /\ ScanOf(GivenText(j)) # calls[j].result

\* The three markers in order: NSNumber, NSString before the first NSNumber,
\* NSDictionary after that NSString and before the NSNumber.
MarkersInOrder ==
    /\ HasBytes
    /\ Includes(Text, NSNumber)
    /\ Includes(Prefix(Text), NSString)
    /\ Includes(AfterString(Text), NSDictionary)

\* The candidate span: what follows the first NSString, up to the first
\* NSDictionary after it.
CandidateSpan == Before(AfterString(Text), First(AfterString(Text), NSDictionary))

\* The span without its first 6 and its last 12 units, trimmed.
Extraction == Str(Trim(SubSeq(CandidateSpan, 7, Len(CandidateSpan) - 12)))

\* C23: with the three markers in order, a span of 19 units yields its unit at
\* index 6, trimmed; a span of 18 units yields no stage-1 result.
C23_SpanLengthBoundary ==
    Returned /\ MarkersInOrder
    => /\ Len(CandidateSpan) = 19 => result = Str(Trim(<<CandidateSpan[7]>>))
       /\ Len(CandidateSpan) = 18 => result # Str(<<>>)

\* C24: with a second NSString between the first NSString and the first
\* NSDictionary after it, the span still runs up to that NSDictionary: a span
\* longer than 18 units yields its extraction.
C24_SpanKeepsSecondString ==
    Returned /\ MarkersInOrder /\ Includes(CandidateSpan, NSString)
        /\ Len(CandidateSpan) > 18
    => result = Extraction

\* C25: from the marker path, with the three markers in order and a span longer
\* than 18 units, the call returns the extraction at once: the pattern scan is
\* not entered.
C25_StageOrder ==
    [][pc = "stage1" /\ MarkersInOrder /\ Len(CandidateSpan) > 18
       => pc' = "done" /\ result' = Extraction]_vars

\* The segment the code keeps at line 80: what lies between the first NSString
\* of the prefix and the next one.
Segment ==
    LET a == AfterString(Text)
    IN  IF Includes(a, NSString) THEN Before(a, First(a, NSString)) ELSE a

\* The part of the segment before its first NSDictionary.
SegmentSpan == Before(Segment, First(Segment, NSDictionary))

\* Stage 1 has no result to return, read on the segment or on everything after
\* the first NSString.
Stage1Fails ==
    \/ ~Includes(Segment, NSDictionary)
    \/ Len(SegmentSpan) <= 18
    \/ ~Includes(AfterString(Text), NSDictionary)
    \/ Len(CandidateSpan) <= 18

\* C27: with NSNumber in the text and NSString before it, when stage 1 has no
\* result (no NSDictionary in the segment, or a span of 18 units or fewer) the
\* call returns null.
C27_NarrowedScanIsNull ==
    Returned /\ HasBytes /\ Includes(Text, NSNumber)
        /\ Includes(Prefix(Text), NSString) /\ Stage1Fails
    => result = Null

\* C27 witness: such a call has returned null on a text whose pattern scan
\* would have captured a string.
C27_Witness ==
    /\ Returned /\ HasBytes /\ Includes(Text, NSNumber)
    /\ Includes(Prefix(Text), NSString) /\ Stage1Fails
    /\ ScanOf(Text) # Null
    /\ result = Null

NoMarker(s) ==
    ~Includes(s, NSNumber) /\ ~Includes(s, NSString) /\ ~Includes(s, NSDictionary)

\* C28: a returned string never holds NSNumber, and a string returned by the
\* marker path holds none of NSNumber, NSString, NSDictionary.
C28_ResultHoldsNoMarker ==
    /\ [](Returned /\ result # Null => ~Includes(result.val, NSNumber))
    /\ [][pc = "stage1" /\ pc' = "done" => NoMarker(result'.val)]_vars

\* C28 witness: the marker path has returned a non-empty string from a text
\* that holds the three markers, one of them twice.
C28_Witness ==
    /\ Returned /\ MarkersInOrder
    /\ Includes(From(Text, First(Text, NSNumber)), NSString)
    /\ result = Extraction
    /\ result.val # <<>>

(***************************************************************************)
(* contacts-sdk: normalizePhoneNumber and phoneNumbersMatch.               *)
(***************************************************************************)
MaxCountryDigit == 2

PlusSign == 43

IsDigit(c) == c \in 48..57

\* /[^\d+]/ : a unit that is neither a digit nor "+".
IsPhoneNoise(c) == ~IsDigit(c) /\ c # PlusSign

NormalizePhoneNumber(phone) ==
    LET Kept(c) == ~IsPhoneNoise(c)
        normalized == SelectSeq(phone, Kept)
        startsWithPlus == normalized # <<>> /\ Head(normalized) = PlusSign
    IN  IF startsWithPlus THEN normalized
        ELSE IF Len(normalized) = 10 THEN <<PlusSign, 49>> \o normalized
        ELSE IF Len(normalized) >= 11 /\ ~startsWithPlus THEN <<PlusSign>> \o normalized
        ELSE normalized

\* norm.replace(/^\+\d/, ""): a leading "+" and the one digit after it removed.
StripCountryCode(norm) ==
    IF Len(norm) >= 2 /\ norm[1] = PlusSign /\ IsDigit(norm[2])
    THEN SubSeq(norm, 3, Len(norm))
    ELSE norm

PhoneNumbersMatch(p1, p2) ==
    LET norm1 == NormalizePhoneNumber(p1)
        norm2 == NormalizePhoneNumber(p2)
    IN  IF norm1 = norm2 THEN TRUE
        ELSE StripCountryCode(norm1) = StripCountryCode(norm2)

\* What a caller writes before the national number: nothing, "+", "+" and a
\* country digit, or a bare "1".
CountryPrefixes ==
    { <<>>, <<PlusSign>>, <<49>> } \cup { <<PlusSign, 48 + d>> : d \in 1..MaxCountryDigit }

\* "1234567890", "(123) 456-7890", "4567890", "9876543210", "47911123456".
NationalNumbers ==
    { <<49, 50, 51, 52, 53, 54, 55, 56, 57, 48>>,
      <<40, 49, 50, 51, 41, 32, 52, 53, 54, 45, 55, 56, 57, 48>>,
      <<52, 53, 54, 55, 56, 57, 48>>,
      <<57, 56, 55, 54, 53, 52, 51, 50, 49, 48>>,
      <<52, 55, 57, 49, 49, 49, 50, 51, 52, 53, 54>> }

Phones == { c \o n : c \in CountryPrefixes, n \in NationalNumbers }

PhoneInit ==
    /\ phone1 \in Phones
    /\ phone2 \in Phones
    /\ matched = FALSE
    /\ phoneStage = "called"
    /\ DecoderIdle
    /\ PipelineIdle
    /\ CallsIdle
    /\ DatesIdle
    /\ ListIdle
    /\ ScriptIdle
    /\ ToolsIdle

MatchPhones ==
    /\ phoneStage = "called"
    /\ matched' = PhoneNumbersMatch(phone1, phone2)
    /\ phoneStage' = "returned"
    /\ UNCHANGED <<phone1, phone2>>
    /\ UNCHANGED notPhoneVars

PhoneNext == MatchPhones

PhoneSpec == PhoneInit /\ [][PhoneNext]_vars

\* A normalized number with its country code taken off: the "+" and one to
\* three digits after it.
WithoutCountryCode(norm) ==
    IF norm # <<>> /\ Head(norm) = PlusSign
    THEN { SubSeq(norm, k + 2, Len(norm)) : k \in 1..3 }
    ELSE {}

\* C21: the call returns true only for normalized numbers that are equal or
\* that are one another without the country code; two numbers with "+", one
\* country digit each, different, and the same digits after it do not match.
C21_DifferentNumbersDoNotMatch ==
    LET norm1 == NormalizePhoneNumber(phone1)
        norm2 == NormalizePhoneNumber(phone2)
    IN  phoneStage = "returned"
        => /\ matched => \/ norm1 = norm2
                         \/ norm1 \in WithoutCountryCode(norm2)
                         \/ norm2 \in WithoutCountryCode(norm1)
           /\ Len(norm1) >= 2 /\ Len(norm2) >= 2
                /\ norm1[1] = PlusSign /\ norm2[1] = PlusSign /\ norm1[2] # norm2[2]
                /\ SubSeq(norm1, 3, Len(norm1)) = SubSeq(norm2, 3, Len(norm2))
              => ~matched

(***************************************************************************)
(* contacts-sdk: ContactsClient.sendMessage and executeOSAScript.          *)
(***************************************************************************)
MaxNow == 2

\* s.replace(/c/g, r) for a one-unit pattern c.
RECURSIVE ReplaceAll(_, _, _)
ReplaceAll(s, c, r) ==
    IF s = <<>> THEN <<>>
    ELSE (IF Head(s) = c THEN r ELSE <<Head(s)>>) \o ReplaceAll(Tail(s), c, r)

\* .replace(/\\/g, "\\\\").replace(/"/g, '\\"')
Escape(s) == ReplaceAll(ReplaceAll(s, 92, <<92, 92>>), 34, <<92, 34>>)

\* The script text: the template, with the escaped recipient and message.
Script(options) ==
    [recipient |-> Escape(options.recipient), message |-> Escape(options.message)]

\* "error:"
ErrorPrefix == <<101, 114, 114, 111, 114, 58>>

\* Recipients "a" and a double quote; messages "b" and a backslash.
SendOptions ==
    { [recipient |-> r, message |-> m] : r \in { <<97>>, <<34>> }, m \in { <<98>>, <<92>> } }

\* What osascript does: it prints "success\n", "error:no\n", " error:\n",
\* "errors" or nothing, or it exits with a failure and execSync throws an Error.
Runs ==
    { [kind |-> "output", text |-> t, error |-> Null] :
        t \in { <<115, 117, 99, 99, 101, 115, 115, 10>>,
                ErrorPrefix \o <<110, 111, 10>>,
                <<32>> \o ErrorPrefix \o <<10>>,
                <<101, 114, 114, 111, 114, 115>>,
                <<>> } }
    \cup { [kind |-> "throw", text |-> <<>>, error |-> [isError |-> TRUE, message |-> <<102>>]] }

\* writeFileSync failing (the temporary directory cannot be written).
WriteError == [isError |-> TRUE, message |-> <<119>>]

Returns(v) == [kind |-> "return", value |-> v]

Throws(e) == [kind |-> "throw", value |-> e]

\* An async function's promise: resolved with what the body returns, rejected
\* with what it throws.
Settle(c) ==
    IF c.kind = "return" THEN [kind |-> "resolved", value |-> c.value]
    ELSE [kind |-> "rejected", value |-> c.value]

\* Mutant: the file left in place.
KeepFile(files, name) == files

\* unlinkSync(tmpFile)
UnlinkSync(files, name) == { f \in files : f.name # name }

\* Mutant: a catch block that rethrows.
Rethrown(error) ==
    [pc |-> "rejected", value |-> error]

\* Lines 72-77: the catch block of sendMessage.
OnRejected(error) ==
    [pc |-> "resolved",
     value |-> [success |-> FALSE,
                error |-> Str(IF error.isError THEN error.message ELSE <<>>)]]

\* Lines 65-71: after the await.
OnFulfilled(res) ==
    [pc |-> "resolved",
     value |-> IF OccursAt(res, ErrorPrefix, 1)
               THEN [success |-> FALSE, error |-> Str(Substring(res, 6, Len(res)))]
               ELSE [success |-> TRUE, error |-> Null]]

ScriptInit ==
    /\ tmpFiles = {}
    /\ osa = NoOsa
    /\ sending \in { [pc |-> "called", options |-> o, value |-> Null] : o \in SendOptions }
    /\ ran = Null
    /\ DecoderIdle
    /\ PipelineIdle
    /\ CallsIdle
    /\ DatesIdle
    /\ ListIdle
    /\ PhonesIdle
    /\ ToolsIdle

\* sendMessage up to its await: the script is built and executeOSAScript is
\* called, which names its file after Date.now().
SendMessage ==
    /\ sending.pc = "called"
    /\ \E now \in 1..MaxNow :
          osa' = [NoOsa EXCEPT !.pc = "write", !.tmpFile = now,
                               !.script = Script(sending.options)]
    /\ sending' = [sending EXCEPT !.pc = "awaiting"]
    /\ UNCHANGED <<tmpFiles, ran>>
    /\ UNCHANGED notScriptVars

\* writeFileSync(tmpFile, script), outside the try.
WriteFileSync ==
    /\ osa.pc = "write"
    /\ \/ /\ tmpFiles' = UnlinkSync(tmpFiles, osa.tmpFile)
                            \cup { [name |-> osa.tmpFile, content |-> osa.script] }
          /\ osa' = [osa EXCEPT !.pc = "exec"]
       \/ /\ osa' = [osa EXCEPT !.pc = "settled", !.completion = Throws(WriteError),
                                !.settled = Settle(Throws(WriteError))]
          /\ UNCHANGED tmpFiles
    /\ UNCHANGED <<sending, ran>>
    /\ UNCHANGED notScriptVars

\* execSync(`osascript "${tmpFile}"`).trim(), inside the try.
ExecSync ==
    /\ osa.pc = "exec"
    /\ \E r \in Runs :
          /\ ran' = r
          /\ osa' = [osa EXCEPT !.pc = "finally",
                                !.completion = IF r.kind = "output"
                                               THEN Returns(Trim(r.text))
                                               ELSE Throws(r.error)]
    /\ UNCHANGED <<tmpFiles, sending>>
    /\ UNCHANGED notScriptVars

\* finally { unlinkSync(tmpFile); }, then the promise settles.
Finally ==
    /\ osa.pc = "finally"
    /\ tmpFiles' = UnlinkSync(tmpFiles, osa.tmpFile)
    /\ osa' = [osa EXCEPT !.pc = "settled", !.settled = Settle(osa.completion)]
    /\ UNCHANGED <<sending, ran>>
    /\ UNCHANGED notScriptVars

\* sendMessage after its await.
Resume ==
    /\ sending.pc = "awaiting"
    /\ osa.pc = "settled"
    /\ LET r == IF osa.settled.kind = "resolved"
                THEN OnFulfilled(osa.settled.value)
                ELSE OnRejected(osa.settled.value)
       IN  sending' = [sending EXCEPT !.pc = r.pc, !.value = r.value]
    /\ UNCHANGED <<tmpFiles, osa, ran>>
    /\ UNCHANGED notScriptVars

ScriptNext == SendMessage \/ WriteFileSync \/ ExecSync \/ Finally \/ Resume

ScriptSpec == ScriptInit /\ [][ScriptNext]_vars

\* The script could not be run, or what it printed begins, once trimmed, with
\* "error:".
ScriptFailed ==
    \/ ran = Null
    \/ ran.kind = "throw"
    \/ OccursAt(Trim(ran.text), ErrorPrefix, 1)

\* C22: the promise of sendMessage never rejects; it resolves to success false
\* with an error text when the output starts with "error:" or running the
\* script threw, and to success true otherwise.
C22_SendNeverRejects ==
    /\ sending.pc # "rejected"
    /\ sending.pc = "resolved"
       => IF ScriptFailed
          THEN sending.value.success = FALSE /\ sending.value.error.tag = "string"
          ELSE sending.value = [success |-> TRUE, error |-> Null]

\* C22 witness: osascript failed, execSync threw, and sendMessage resolved
\* with the message of the error.
C22_Witness ==
    /\ sending.pc = "resolved"
    /\ ran # Null /\ ran.kind = "throw"
    /\ sending.value = [success |-> FALSE, error |-> Str(ran.error.message)]

\* C30: once the promise of executeOSAScript has settled, no file of the name
\* it wrote to exists.
C30_TmpFileRemoved ==
    osa.pc = "settled" => \A f \in tmpFiles : f.name # osa.tmpFile

\* C30 witness: the file was written, osascript failed, the promise is
\* rejected, and the file is gone.
C30_Witness ==
    /\ osa.pc = "settled"
    /\ osa.settled.kind = "rejected"
    /\ ran # Null
    /\ tmpFiles = {}

(***************************************************************************)
(* api: the tools imessage_search_messages and                             *)
(* imessage_get_messages_by_date, over a small chat database.              *)
(***************************************************************************)
MaxLimit == 2

\* The handle table: "a" (also written "A") and "b".
Handles ==
    { [ROWID |-> 1, id |-> <<97>>, uncanonicalized_id |-> <<65>>],
      [ROWID |-> 2, id |-> <<98>>, uncanonicalized_id |-> <<98>>] }

\* The message table; message 4 has no handle.
MessageTable ==
    { [ROWID |-> 1, handle_id |-> 1, date |-> 1],
      [ROWID |-> 2, handle_id |-> 2, date |-> 2],
      [ROWID |-> 3, handle_id |-> 1, date |-> 3],
      [ROWID |-> 4, handle_id |-> 0, date |-> 4] }

Num(n) == [tag |-> "number", val |-> n]

\* SELECT * FROM handle WHERE id = ? OR uncanonicalized_id = ? LIMIT 1, || null
GetHandleByIdentifier(identifier) ==
    LET found == { h \in Handles : h.id = identifier \/ h.uncanonicalized_id = identifier }
    IN  IF found = {} THEN Null
        ELSE Num((CHOOSE h \in found : \A g \in found : h.ROWID <= g.ROWID).ROWID)

\* ORDER BY m.date DESC
RECURSIVE OrderByDateDesc(_)
OrderByDateDesc(rows) ==
    IF rows = {} THEN <<>>
    ELSE LET latest == CHOOSE r \in rows : \A q \in rows : q.date <= r.date
         IN  <<latest>> \o OrderByDateDesc(rows \ {latest})

\* getMessages: the handle, start date and limit clauses are added only for
\* filter values that are given.
GetMessages(filter) ==
    LET rows == { m \in MessageTable :
                    /\ filter.handleId # Null => m.handle_id = filter.handleId.val
                    /\ filter.startDate # 0 => m.date >= filter.startDate }
        ordered == OrderByDateDesc(rows)
    IN  IF filter.limit # 0 /\ filter.limit < Len(ordered)
        THEN SubSeq(ordered, 1, filter.limit)
        ELSE ordered

DefaultSearchLimit == 50

DefaultDateLimit == 100

\* The arguments of a call: contactIdentifier absent, "", "a", "A", "b" or "x";
\* limit and startDate absent (0) or given.
Requests ==
    { [tool |-> t, contactIdentifier |-> c, limit |-> l, startDate |-> d] :
        t \in {"imessage_search_messages", "imessage_get_messages_by_date"},
        c \in {Null, Str(<<>>), Str(<<97>>), Str(<<65>>), Str(<<98>>), Str(<<120>>)},
        l \in 0..MaxLimit,
        d \in {0, 2} }

\* The text content of a tool's reply, and the messages it lists.
Reply(messages) ==
    [kind |-> IF messages = <<>> THEN "No messages found" ELSE "Found", messages |-> messages]

ToolsInit ==
    /\ request \in Requests
    /\ handleId = Null
    /\ response = Null
    /\ toolStage = "called"
    /\ DecoderIdle
    /\ PipelineIdle
    /\ CallsIdle
    /\ DatesIdle
    /\ ListIdle
    /\ PhonesIdle
    /\ ScriptIdle

\* args.contactIdentifier is given and truthy.
HasContact == request.contactIdentifier # Null /\ request.contactIdentifier.val # <<>>

SearchMessages ==
    /\ toolStage = "called"
    /\ request.tool = "imessage_search_messages"
    /\ LET handle == IF HasContact
                     THEN GetHandleByIdentifier(request.contactIdentifier.val)
                     ELSE Null
       IN  /\ handleId' = handle
           /\ response' =
                 IF HasContact /\ handle = Null
                 THEN [kind |-> "No contact found", messages |-> <<>>]
                 ELSE Reply(GetMessages([handleId |-> handle,
                                         startDate |-> request.startDate,
                                         limit |-> IF request.limit # 0 THEN request.limit
                                                   ELSE DefaultSearchLimit]))
    /\ toolStage' = "returned"
    /\ UNCHANGED request
    /\ UNCHANGED notToolVars

GetMessagesByDate ==
    /\ toolStage = "called"
    /\ request.tool = "imessage_get_messages_by_date"
    /\ LET handle == IF HasContact
                     THEN GetHandleByIdentifier(request.contactIdentifier.val)
                     ELSE Null
       IN  /\ handleId' = handle
           /\ response' = Reply(GetMessages([handleId |-> handle,
                                             startDate |-> request.startDate,
                                             limit |-> IF request.limit # 0 THEN request.limit
                                                       ELSE DefaultDateLimit]))
    /\ toolStage' = "returned"
    /\ UNCHANGED request
    /\ UNCHANGED notToolVars

ToolsNext == SearchMessages \/ GetMessagesByDate

ToolsSpec == ToolsInit /\ [][ToolsNext]_vars

\* C29: a call with a contactIdentifier that matches no handle returns no
\* message.
C29_ContactFilterKept ==
    toolStage = "returned" /\ HasContact
        /\ GetHandleByIdentifier(request.contactIdentifier.val) = Null
    => response.messages = <<>>

====
